---- MODULE Spec2Model ----
(***************************************************************************)
(* A model of main.py of bmstu-sport-sniper: the poll loop (main thread,   *)
(* check_slots every SLOTS_CHECK_INTERVAL seconds) and the Telegram        *)
(* command loop (daemon thread, check_telegram_commands), which share the  *)
(* cookie file and the Selenium re-login.                                  *)
(***************************************************************************)
EXTENDS Integers, Sequences, FiniteSets, TLC

\* ------------------------------------------------------------------ bounds
\* Groups in one API response (it has at most as many days, empty or not),
\* and updates ever sent to the bot.
MaxGroups == 2
MaxUpdates == 2
\* Records in one list handed to format_message, where it is looked at on its
\* own.
MaxItems == 11

\* --------------------------------------------------------------- constants
None == "None"
CHAT_ID == "chat_owner"
Stranger == "chat_other"
Threads == {"main", "cmd"}

\* response.status_code values the API may answer with.
StatusCodes == {200, 201, 401, 403, 404, 500}
\* The value of a thread's `response` before a request has answered.
NoStatus == 0

\* ------------------------------------------------------------ API payload
\* The identifying fields of a group: one slot carries an API id, the other
\* has none and is fingerprinted by the hash of its parameters.
Slots ==
    { [id |-> "A", week |-> "Mon", time |-> "10:00", teacherUid |-> "t1", section |-> "gym"],
      [id |-> "",  week |-> "Tue", time |-> "12:00", teacherUid |-> "t2", section |-> "swim"] }

\* group['vacancy'] as the JSON text carries it: a number, or null.
Vacancies == {"0", "1", "null"}

Groups ==
    { [id |-> s.id, week |-> s.week, time |-> s.time, teacherUid |-> s.teacherUid,
       section |-> s.section, vacancy |-> v] : s \in Slots, v \in Vacancies }

RECURSIVE SeqsUpTo(_, _)
SeqsUpTo(S, n) ==
    IF n = 0 THEN { <<>> }
    ELSE LET shorter == SeqsUpTo(S, n - 1)
         IN  shorter \cup { Append(q, x) : q \in { r \in shorter : Len(r) = n - 1 }, x \in S }

RECURSIVE Flatten(_)
Flatten(days_list) ==
    IF days_list = <<>> THEN <<>> ELSE Head(days_list) \o Flatten(Tail(days_list))

\* The lists of at most d days that hold at most n groups in all.
RECURSIVE DaysLists(_, _)
DaysLists(n, d) ==
    IF d = 0 THEN { <<>> }
    ELSE { <<>> } \cup
         UNION { { <<groups>> \o rest : rest \in DaysLists(n - Len(groups), d - 1) } :
                    groups \in SeqsUpTo(Groups, n) }

\* response.json(): a list of days, each with its day_data['groups'].
Payloads == DaysLists(MaxGroups, MaxGroups)

\* hashlib.md5(...).hexdigest(): a digest of the joined string (collisions
\* between different strings are not modelled).
Md5(s) == <<"md5">> \o s

\* "_".join(parts)
Join(parts) == <<parts[1], "_", parts[2], "_", parts[3], "_", parts[4]>>

\* str(item.get('id')): the id as a string of its own.
Str(x) == <<x>>

\* if item.get('id') (line 156): an absent key, None and "" are all falsy.
HasId(item) == item.id \notin {"", None}

\* A generate_slot_id that hashes the vacancy along with the rest.
generate_slot_id_vacancy(item) ==
    IF HasId(item) THEN Str(item.id)
    ELSE Md5(Join(<<item.week, item.time, item.teacherUid, item.section>>)
             \o <<"_", item.vacancy>>)

generate_slot_id(item) ==
    IF HasId(item) THEN Str(item.id)
    ELSE Md5(Join(<<item.week, item.time, item.teacherUid, item.section>>))

Fingerprints == { generate_slot_id(g) : g \in Groups }

\* int(group.get('vacancy', 0)): raises TypeError on null.
IntRaises(v) == v = "null"
IntOf(v) == CASE v = "0" -> 0 [] v = "1" -> 1

\* --------------------------------------------- check_slots: classification
\* The locals of check_slots before the loop (lines 276-277).
ParseStart(known) ==
    [KNOWN_SLOTS |-> known, new_slots_data |-> <<>>, current_slots_map |-> <<>>,
     raised |-> FALSE]

\* The body of the inner loop (lines 283-291).
ProcessGroup(st, group) ==
    LET slot_id == generate_slot_id(group)
        map == [f \in DOMAIN st.current_slots_map \cup {slot_id} |->
                    IF f = slot_id THEN group ELSE st.current_slots_map[f]]
        st1 == [st EXCEPT !.current_slots_map = map]
    IN  IF IntRaises(group.vacancy) THEN [st1 EXCEPT !.raised = TRUE]
        ELSE IF IntOf(group.vacancy) > 0 /\ slot_id \notin st1.KNOWN_SLOTS
             THEN [st1 EXCEPT !.new_slots_data = Append(@, group),
                              !.KNOWN_SLOTS = @ \cup {slot_id}]
             ELSE st1

\* for group in groups (line 282); an exception ends the loops.
RECURSIVE ParseGroups(_, _)
ParseGroups(st, groups) ==
    IF groups = <<>> \/ st.raised THEN st
    ELSE ParseGroups(ProcessGroup(st, Head(groups)), Tail(groups))

\* for day_data in days_list (line 280).
RECURSIVE ParseDays(_, _)
ParseDays(st, days_list) ==
    IF days_list = <<>> \/ st.raised THEN st
    ELSE ParseDays(ParseGroups(st, Head(days_list)), Tail(days_list))

\* An eviction that also drops the fingerprints whose group has no vacancy
\* left.
EvictFull(known, current) ==
    { f \in known \cap DOMAIN current : current[f].vacancy # "0" }

\* KNOWN_SLOTS.intersection_update(current_slots_map.keys()) (line 294).
Evict(known, current) == known \cap DOMAIN current

\* A check_slots that leaves the eviction for after the notification.
ClassifyEvictLater(known, days_list) ==
    IF days_list = <<>> THEN ParseStart(known)
    ELSE ParseDays(ParseStart(known), days_list)

\* A check_slots without the early return of lines 272-274: an empty list of
\* days goes through the loops and the eviction like any other.
ClassifyNoEarlyReturn(known, days_list) ==
    LET st == ParseDays(ParseStart(known), days_list)
    IN  IF st.raised THEN st
        ELSE [st EXCEPT !.KNOWN_SLOTS = Evict(@, st.current_slots_map)]

\* check_slots from the parsed response on (lines 270-294): the early return
\* on an empty list, the loops, and the eviction unless the loops raised.
Classify(known, days_list) ==
    IF days_list = <<>> THEN ParseStart(known)
    ELSE LET st == ParseDays(ParseStart(known), days_list)
         IN  IF st.raised THEN st
             ELSE [st EXCEPT !.KNOWN_SLOTS = Evict(@, st.current_slots_map)]

\* What a payload holds, whatever the code does with it: whether the list of
\* days is empty, the fingerprints of all its groups, and the fingerprints of
\* the groups whose vacancy is a number above zero.
IsAvailable(g) == g.vacancy \notin {"0", "null"}

Contents(days_list) ==
    LET all == Flatten(days_list)
    IN  [nodays |-> days_list = <<>>,
         full   |-> { generate_slot_id(all[i]) : i \in DOMAIN all },
         avail  |-> { generate_slot_id(all[i]) : i \in { j \in DOMAIN all : IsAvailable(all[j]) } }]

NoContents == [nodays |-> TRUE, full |-> {}, avail |-> {}]

\* Every result check_slots can compute from a 200 response, with the
\* Known-Set it started from and the contents of the payload it came from.
PollOutcomes ==
    { [known |-> known, st |-> Classify(known, p), seen |-> Contents(p)] :
        known \in SUBSET Fingerprints, p \in Payloads }

\* ------------------------------------- get_all_available_slots: the filter
\* The loops of lines 329-332; the except of line 334 keeps what was appended.
RECURSIVE FilterGroups(_, _)
FilterGroups(acc, groups) ==
    IF groups = <<>> \/ acc.raised THEN acc
    ELSE LET g == Head(groups)
         IN  IF IntRaises(g.vacancy) THEN [acc EXCEPT !.raised = TRUE]
             ELSE IF IntOf(g.vacancy) > 0
                  THEN FilterGroups([acc EXCEPT !.slots = Append(@, g)], Tail(groups))
                  ELSE FilterGroups(acc, Tail(groups))

RECURSIVE FilterDays(_, _)
FilterDays(acc, days_list) ==
    IF days_list = <<>> \/ acc.raised THEN acc
    ELSE FilterDays(FilterGroups(acc, Head(days_list)), Tail(days_list))

AvailableSlots(days_list) == FilterDays([slots |-> <<>>, raised |-> FALSE], days_list).slots

\* Every list get_all_available_slots can return from a 200 response, with
\* the contents of the payload it came from.
CmdOutcomes ==
    { [slots |-> AvailableSlots(p), seen |-> Contents(p)] : p \in Payloads }

\* ----------------------------------------------------------- format_message
\* The parts of a message: the headline (line 214), one card per item
\* (lines 237-245, with the fields of the item it shows), the "\n\n" that
\* joins them (line 247), and the link check_slots appends (lines 299-300).
Headline == <<"headline">>
Separator == <<"\n\n">>
Link == <<"link">>

Card(item) == <<"card", item.section, item.week, item.time, item.vacancy>>

\* "\n\n".join(msg_lines), as the sequence of the parts and the separators
\* between them.
RECURSIVE JoinLines(_)
JoinLines(msg_lines) ==
    IF Len(msg_lines) <= 1 THEN msg_lines
    ELSE <<Head(msg_lines), Separator>> \o JoinLines(Tail(msg_lines))

\* format_message(new_items) (lines 212-247): a card for every item.
format_message(new_items) ==
    JoinLines(<<Headline>> \o [i \in DOMAIN new_items |-> Card(new_items[i])])

\* f"{text}\n\n<a href='{link}'>..." (line 300)
FullText(new_items) == format_message(new_items) \o <<Separator, Link>>

\* ------------------------------------------------------- Telegram updates
\* update["message"]["text"] of an inbound update; NoText is an update that
\* has no message or no text.
NoText == "NoText"
Texts == {"/start", "/check", " /Check ", "hello", NoText}
Senders == {CHAT_ID, Stranger}

\* text.strip().lower()
StripLower(text) == IF text = " /Check " THEN "/check" ELSE text

NoUpdate == [update_id |-> 0, from |-> None, text |-> NoText]

\* A status test that takes every client and server error for an expired
\* token.
UnauthorizedAnyError(code) == code >= 400

\* status_code in [401, 403] (lines 259 and 318).
Unauthorized(code) == code \in {401, 403}

\* -------------------------------------------------------------------- state
VARIABLES
    pc,                \* where each thread is
    startup,           \* main() has not entered its while loop yet
    cookieFile,        \* COOKIE_FILE on disk: "absent", "corrupt" or "valid"
    fd,                \* fd[t]: t holds COOKIE_FILE open for writing and the
                       \* open file is still the one linked at that path
    status,            \* response.status_code of each thread's API request
    KNOWN_SLOTS,
    new_slots_data,    \* check_slots locals
    current_slots_map,
    full_text,         \* check_slots: the text it hands to send_telegram
    LAST_UPDATE_ID,
    tg_last_id,        \* Telegram's side: the id of the newest update
    updates,           \* check_telegram_commands: the ids still to iterate
    update,            \* the update being handled
    slots,             \* get_all_available_slots: its result
    h_seen,            \* history: contents of the payload of this poll cycle
    h_before,          \* history: KNOWN_SLOTS when this poll cycle's payload arrived
    h_on,              \* whether the two histories across cycles are kept
    h_prev_avail,      \* history: fingerprints available in the last parsed poll payload
    h_gone,            \* history: known fingerprints a parsed poll payload lacked,
                       \* not seen available since
    h_cmd_avail,       \* history: fingerprints available in the payload /check fetched
    h_stored,          \* history: h_stored[t] is COOKIE_FILE as it was when t
                       \* called update_cookies_via_selenium, None outside a call
    items,             \* generate_slot_id on its own: the items it is called with
    slot_ids           \* and what it returned for each

pollLocals == <<new_slots_data, current_slots_map, full_text>>
cmdLocals == <<updates, update, slots>>
histPoll == <<h_seen, h_before, h_on, h_prev_avail, h_gone, h_cmd_avail>>
pure == <<items, slot_ids>>
hist == <<histPoll, h_stored, pure>>
vars == <<pc, startup, cookieFile, fd, status, KNOWN_SLOTS, pollLocals,
          LAST_UPDATE_ID, tg_last_id, cmdLocals, hist>>

InitProgram ==
    /\ pc = [t \in Threads |-> IF t = "main" THEN "main_start" ELSE "tg_poll"]
    /\ startup = TRUE
    /\ cookieFile \in {"absent", "corrupt", "valid"}
    /\ fd = [t \in Threads |-> FALSE]
    /\ status = [t \in Threads |-> NoStatus]
    /\ KNOWN_SLOTS = {}
    /\ new_slots_data = <<>>
    /\ current_slots_map = <<>>
    /\ full_text = <<>>
    /\ LAST_UPDATE_ID = 0
    /\ tg_last_id = 0
    /\ updates = <<>>
    /\ update = NoUpdate
    /\ slots = <<>>
    /\ h_seen = NoContents
    /\ h_before = {}
    /\ h_prev_avail = {}
    /\ h_gone = {}
    /\ h_cmd_avail = {}
    /\ h_stored = [t \in Threads |-> None]
    /\ items = <<>>
    /\ slot_ids = <<>>

Init == InitProgram /\ h_on = FALSE

\* The same program, with the histories across poll cycles recorded.
InitHist == InitProgram /\ h_on = TRUE

\* History: t calls update_cookies_via_selenium.
Stored(t) == h_stored' = [h_stored EXCEPT ![t] = cookieFile]

Goto(t, label) == pc' = [pc EXCEPT ![t] = label]

\* ------------------------------------------------------------- get_session
\* if os.path.exists(COOKIE_FILE) (line 140)
GsExists(t) ==
    /\ pc[t] = "gs_exists"
    /\ Goto(t, IF cookieFile # "absent" THEN "gs_load" ELSE "fetch")
    /\ UNCHANGED <<startup, cookieFile, fd, status, KNOWN_SLOTS, pollLocals,
                   LAST_UPDATE_ID, tg_last_id, cmdLocals, hist>>

\* open, pickle.load and the cookie loop (lines 142-145): anything but a
\* complete file raises into the except of line 146.
GsLoad(t) ==
    /\ pc[t] = "gs_load"
    /\ Goto(t, IF cookieFile = "valid" THEN "fetch" ELSE "gs_except")
    /\ UNCHANGED <<startup, cookieFile, fd, status, KNOWN_SLOTS, pollLocals,
                   LAST_UPDATE_ID, tg_last_id, cmdLocals, hist>>

\* if os.path.exists(COOKIE_FILE) of the handler (line 149)
GsExcept(t) ==
    /\ pc[t] = "gs_except"
    /\ Goto(t, IF cookieFile # "absent" THEN "gs_remove" ELSE "fetch")
    /\ UNCHANGED <<startup, cookieFile, fd, status, KNOWN_SLOTS, pollLocals,
                   LAST_UPDATE_ID, tg_last_id, cmdLocals, hist>>

\* Where FileNotFoundError from os.remove lands: nothing catches it on the
\* main thread (get_session is called outside the try of check_slots, and
\* main has none), the except of check_telegram_commands catches it on the
\* command thread and drops the rest of the batch.
GsRaise(t) == IF t = "main" THEN "crashed" ELSE "tg_sleep"

\* The main thread ending ends the process, and the daemon thread with it
\* (line 403: daemon=True).
Exit == [t \in Threads |-> IF t = "main" THEN "crashed" ELSE "killed"]

\* os.remove(COOKIE_FILE) (line 149)
GsRemove(t) ==
    /\ pc[t] = "gs_remove"
    /\ IF cookieFile # "absent"
       THEN /\ cookieFile' = "absent"
            /\ fd' = [u \in Threads |-> FALSE]
            /\ Goto(t, "fetch")
            /\ UNCHANGED cmdLocals
       ELSE /\ pc' = IF GsRaise(t) = "crashed" THEN Exit ELSE [pc EXCEPT ![t] = GsRaise(t)]
            /\ IF t = "cmd"
               THEN updates' = <<>> /\ update' = NoUpdate /\ slots' = <<>>
               ELSE UNCHANGED cmdLocals
            /\ UNCHANGED <<cookieFile, fd>>
    /\ UNCHANGED <<startup, status, KNOWN_SLOTS, pollLocals,
                   LAST_UPDATE_ID, tg_last_id, hist>>

\* ------------------------------------------- update_cookies_via_selenium
\* A check_slots that fetches again after its re-login.
UcReturnRetry(t) ==
    IF t = "main" THEN (IF startup THEN "gs_exists" ELSE "fetch") ELSE "check_send"

\* Where update_cookies_via_selenium returns to: main's while loop (and so
\* check_slots and get_session) after the initial login, the sleep of the
\* while loop after check_slots returns (line 262), and handle_check_command
\* with an empty list (line 321).
UcReturn(t) ==
    IF t = "main" THEN (IF startup THEN "gs_exists" ELSE "done") ELSE "check_send"

UcLeave(t) ==
    /\ Goto(t, UcReturn(t))
    /\ startup' = IF t = "main" THEN FALSE ELSE startup
    /\ status' = [status EXCEPT ![t] = NoStatus]
    /\ h_stored' = [h_stored EXCEPT ![t] = None]

\* Browser start and login (lines 109-118) fail: the except logs, nothing is
\* written.
UcLoginFails(t) ==
    /\ pc[t] = "uc_login"
    /\ UcLeave(t)
    /\ UNCHANGED <<cookieFile, fd, KNOWN_SLOTS, pollLocals,
                   LAST_UPDATE_ID, tg_last_id, cmdLocals, histPoll, pure>>

\* Login succeeds and open(COOKIE_FILE, "wb") truncates or creates the file
\* (line 124).
UcOpen(t) ==
    /\ pc[t] = "uc_login"
    /\ cookieFile' = "corrupt"
    /\ fd' = [fd EXCEPT ![t] = TRUE]
    /\ Goto(t, "uc_dump")
    /\ UNCHANGED <<startup, status, KNOWN_SLOTS, pollLocals,
                   LAST_UPDATE_ID, tg_last_id, cmdLocals, hist>>

\* driver.get_cookies() raises (line 125): the file is closed as truncated.
UcDumpFails(t) ==
    /\ pc[t] = "uc_dump"
    /\ fd' = [fd EXCEPT ![t] = FALSE]
    /\ UcLeave(t)
    /\ UNCHANGED <<cookieFile, KNOWN_SLOTS, pollLocals,
                   LAST_UPDATE_ID, tg_last_id, cmdLocals, histPoll, pure>>

\* pickle.dump and the close of the with block (lines 124-125): the bytes
\* reach the file this thread opened, which may be unlinked by now.
UcDump(t) ==
    /\ pc[t] = "uc_dump"
    /\ cookieFile' = IF fd[t] THEN "valid" ELSE cookieFile
    /\ fd' = [fd EXCEPT ![t] = FALSE]
    /\ UcLeave(t)
    /\ UNCHANGED <<KNOWN_SLOTS, pollLocals,
                   LAST_UPDATE_ID, tg_last_id, cmdLocals, histPoll, pure>>

\* -------------------------------------------------------------------- main
\* if not os.path.exists(COOKIE_FILE): update_cookies_via_selenium()
\* (lines 412-414), else straight into the while loop.
MainStart ==
    /\ pc["main"] = "main_start"
    /\ IF cookieFile = "absent"
       THEN Goto("main", "uc_login") /\ Stored("main") /\ UNCHANGED startup
       ELSE Goto("main", "gs_exists") /\ startup' = FALSE /\ UNCHANGED h_stored
    /\ UNCHANGED <<cookieFile, fd, status, KNOWN_SLOTS, pollLocals,
                   LAST_UPDATE_ID, tg_last_id, cmdLocals, histPoll, pure>>

\* time.sleep(SLOTS_CHECK_INTERVAL) ends and check_slots is called again
\* (lines 420-422, 252).
Sleep ==
    /\ pc["main"] = "done"
    /\ Goto("main", "gs_exists")
    /\ UNCHANGED <<startup, cookieFile, fd, status, KNOWN_SLOTS, pollLocals,
                   LAST_UPDATE_ID, tg_last_id, cmdLocals, hist>>

\* ------------------------------------------------------------- check_slots
\* session.get raises (line 256): the except of line 306 logs.
PollFetchFails ==
    /\ pc["main"] = "fetch"
    /\ Goto("main", "except")
    /\ UNCHANGED <<startup, cookieFile, fd, status, KNOWN_SLOTS, pollLocals,
                   LAST_UPDATE_ID, tg_last_id, cmdLocals, hist>>

\* Where check_slots goes on a status other than 200 (lines 259-267).
PollOnStatus(code) == IF Unauthorized(code) THEN "uc_login" ELSE "api_error"

PollFetchStatus ==
    /\ pc["main"] = "fetch"
    /\ \E code \in StatusCodes \ {200} :
        /\ status' = [status EXCEPT !["main"] = code]
        /\ Goto("main", PollOnStatus(code))
        /\ IF PollOnStatus(code) = "uc_login" THEN Stored("main") ELSE UNCHANGED h_stored
    /\ UNCHANGED <<startup, cookieFile, fd, KNOWN_SLOTS, pollLocals,
                   LAST_UPDATE_ID, tg_last_id, cmdLocals, histPoll, pure>>

\* Status 200 and response.json() raises (line 270).
PollFetchJsonError ==
    /\ pc["main"] = "fetch"
    /\ status' = [status EXCEPT !["main"] = 200]
    /\ Goto("main", "except")
    /\ UNCHANGED <<startup, cookieFile, fd, KNOWN_SLOTS, pollLocals,
                   LAST_UPDATE_ID, tg_last_id, cmdLocals, hist>>

\* Where check_slots goes after the loops: send_telegram when something is
\* new (line 297), the log line when nothing is (line 304), the except of
\* line 306 when the loops raised.
PollAfterParse(st) ==
    IF st.raised THEN "except"
    ELSE IF st.new_slots_data # <<>> THEN "send" ELSE "nonew"

\* Status 200 with a parsed payload: lines 270-294.
PollFetchOk ==
    /\ pc["main"] = "fetch"
    /\ \E o \in PollOutcomes :
        /\ o.known = KNOWN_SLOTS
        /\ KNOWN_SLOTS' = o.st.KNOWN_SLOTS
        /\ new_slots_data' = o.st.new_slots_data
        /\ current_slots_map' = o.st.current_slots_map
        /\ Goto("main", PollAfterParse(o.st))
        /\ h_seen' = o.seen
        /\ h_before' = KNOWN_SLOTS
        /\ h_prev_avail' = IF h_on THEN o.seen.avail ELSE h_prev_avail
        /\ h_gone' = IF h_on THEN (h_gone \cup (KNOWN_SLOTS \ o.seen.full)) \ o.seen.avail
                     ELSE h_gone
    /\ status' = [status EXCEPT !["main"] = 200]
    /\ UNCHANGED <<startup, cookieFile, fd, full_text, LAST_UPDATE_ID, tg_last_id,
                   cmdLocals, h_on, h_cmd_avail, h_stored, pure>>

\* check_slots returns: its locals are gone.
PollReturn ==
    /\ Goto("main", "done")
    /\ status' = [status EXCEPT !["main"] = NoStatus]
    /\ new_slots_data' = <<>>
    /\ current_slots_map' = <<>>
    /\ full_text' = <<>>
    /\ h_seen' = NoContents
    /\ h_before' = {}
    /\ UNCHANGED <<startup, cookieFile, fd, KNOWN_SLOTS, LAST_UPDATE_ID, tg_last_id,
                   cmdLocals, h_on, h_prev_avail, h_gone, h_cmd_avail, h_stored, pure>>

\* text = format_message(new_slots_data) and full_text (lines 298-301).
PollFormat ==
    /\ pc["main"] = "send"
    /\ full_text' = FullText(new_slots_data)
    /\ Goto("main", "sending")
    /\ UNCHANGED <<startup, cookieFile, fd, status, KNOWN_SLOTS, new_slots_data,
                   current_slots_map, LAST_UPDATE_ID, tg_last_id, cmdLocals, hist>>

\* send_telegram(full_text) (line 302): one sendMessage request; a delivery
\* failure is swallowed in send_telegram (lines 83-84) and changes nothing
\* here.
PollSend ==
    /\ pc["main"] = "sending"
    /\ PollReturn

\* The log line of line 304, of the except (line 307) or of the status
\* check (line 266).
PollNoSend ==
    /\ pc["main"] \in {"nonew", "except", "api_error"}
    /\ PollReturn

\* ------------------------------------------------- get_all_available_slots
\* session.get or response.json() raises (lines 316, 327): the except of
\* line 334 logs and the empty list is returned.
CmdFetchFails ==
    /\ pc["cmd"] = "fetch"
    /\ slots' = <<>>
    /\ Goto("cmd", "check_send")
    /\ UNCHANGED <<startup, cookieFile, fd, status, KNOWN_SLOTS, pollLocals,
                   LAST_UPDATE_ID, tg_last_id, updates, update, hist>>

\* Where get_all_available_slots goes on a status other than 200
\* (lines 318-325): the re-login, or back to the handler with [].
CmdOnStatus(code) == IF Unauthorized(code) THEN "uc_login" ELSE "api_error"

CmdFetchStatus ==
    /\ pc["cmd"] = "fetch"
    /\ \E code \in StatusCodes \ {200} :
        /\ status' = [status EXCEPT !["cmd"] = code]
        /\ Goto("cmd", CmdOnStatus(code))
        /\ IF CmdOnStatus(code) = "uc_login" THEN Stored("cmd") ELSE UNCHANGED h_stored
    /\ slots' = <<>>
    /\ UNCHANGED <<startup, cookieFile, fd, KNOWN_SLOTS, pollLocals,
                   LAST_UPDATE_ID, tg_last_id, updates, update, histPoll, pure>>

\* return [] after the log line of line 324.
CmdApiError ==
    /\ pc["cmd"] = "api_error"
    /\ status' = [status EXCEPT !["cmd"] = NoStatus]
    /\ Goto("cmd", "check_send")
    /\ UNCHANGED <<startup, cookieFile, fd, KNOWN_SLOTS, pollLocals,
                   LAST_UPDATE_ID, tg_last_id, cmdLocals, hist>>

\* Status 200 with a parsed payload: lines 327-337, up to the return, where
\* the response is gone.
CmdFetchOk ==
    /\ pc["cmd"] = "fetch"
    /\ \E o \in CmdOutcomes :
        /\ slots' = o.slots
        /\ h_cmd_avail' = o.seen.avail
    /\ Goto("cmd", "check_send")
    /\ UNCHANGED <<startup, cookieFile, fd, status, KNOWN_SLOTS, pollLocals,
                   LAST_UPDATE_ID, tg_last_id, updates, update,
                   h_seen, h_before, h_on, h_prev_avail, h_gone, h_stored, pure>>

\* ------------------------------------------------------- command handlers
\* handle_check_command after get_all_available_slots (lines 358-365): one
\* send_telegram either way, then the next update of the batch.
CheckSend ==
    /\ pc["cmd"] = "check_send"
    /\ Goto("cmd", "tg_loop")
    /\ slots' = <<>>
    /\ update' = NoUpdate
    /\ h_cmd_avail' = {}
    /\ UNCHANGED <<startup, cookieFile, fd, status, KNOWN_SLOTS, pollLocals,
                   LAST_UPDATE_ID, tg_last_id, updates,
                   h_seen, h_before, h_on, h_prev_avail, h_gone, h_stored, pure>>

\* handle_start_command (lines 340-346)
StartSend ==
    /\ pc["cmd"] = "start_send"
    /\ Goto("cmd", "tg_loop")
    /\ update' = NoUpdate
    /\ UNCHANGED <<startup, cookieFile, fd, status, KNOWN_SLOTS, pollLocals,
                   LAST_UPDATE_ID, tg_last_id, updates, slots, hist>>

\* ------------------------------------------------- check_telegram_commands
\* A user (the owner or anyone else) writes to the bot.
UserSends ==
    /\ tg_last_id < MaxUpdates
    /\ tg_last_id' = tg_last_id + 1
    /\ UNCHANGED <<pc, startup, cookieFile, fd, status, KNOWN_SLOTS, pollLocals,
                   LAST_UPDATE_ID, cmdLocals, hist>>

\* A check_telegram_commands whose failed request starts over from the first
\* update.
TgPollFailsReset ==
    /\ pc["cmd"] = "tg_poll"
    /\ Goto("cmd", "tg_sleep")
    /\ LAST_UPDATE_ID' = 0
    /\ UNCHANGED <<startup, cookieFile, fd, status, KNOWN_SLOTS, pollLocals,
                   tg_last_id, cmdLocals, hist>>

\* getUpdates raises or answers another status than 200 (lines 371-376).
TgPollFails ==
    /\ pc["cmd"] = "tg_poll"
    /\ Goto("cmd", "tg_sleep")
    /\ UNCHANGED <<startup, cookieFile, fd, status, KNOWN_SLOTS, pollLocals,
                   LAST_UPDATE_ID, tg_last_id, cmdLocals, hist>>

\* getUpdates(offset = LAST_UPDATE_ID + 1) answers with every update from
\* that offset on, in order (line 377).
UpdatesFrom(offset) == [i \in 1..(tg_last_id + 1 - offset) |-> offset + i - 1]

TgPollOk ==
    /\ pc["cmd"] = "tg_poll"
    /\ updates' = UpdatesFrom(LAST_UPDATE_ID + 1)
    /\ Goto("cmd", "tg_loop")
    /\ UNCHANGED <<startup, cookieFile, fd, status, KNOWN_SLOTS, pollLocals,
                   LAST_UPDATE_ID, tg_last_id, update, slots, hist>>

\* Which handler check_telegram_commands runs for an update (lines 380-386):
\* the text alone decides, the sender is not looked at.
Dispatch(upd) ==
    IF upd.text = NoText THEN "tg_loop"
    ELSE LET cmd == StripLower(upd.text)
         IN  IF cmd = "/start" THEN "start_send"
             ELSE IF cmd = "/check" THEN "gs_exists"
             ELSE "tg_loop"

\* An offset that jumps to the last update of the batch.
OffsetAtBatchEnd(batch) == batch[Len(batch)]

\* LAST_UPDATE_ID = update["update_id"] (line 379), for the update the loop
\* is at.
OffsetAt(batch) == Head(batch)

\* One iteration of the for loop (lines 378-386): the offset moves to the
\* update, then the handler, if any, starts. What the update holds is only
\* looked at here.
TgLoopNext ==
    /\ pc["cmd"] = "tg_loop"
    /\ updates # <<>>
    /\ \E sender \in Senders, text \in Texts :
        LET upd == [update_id |-> Head(updates), from |-> sender, text |-> text]
        IN  /\ Goto("cmd", Dispatch(upd))
            /\ update' = IF Dispatch(upd) = "tg_loop" THEN NoUpdate ELSE upd
    /\ LAST_UPDATE_ID' = OffsetAt(updates)
    /\ updates' = Tail(updates)
    /\ UNCHANGED <<startup, cookieFile, fd, status, KNOWN_SLOTS, pollLocals,
                   tg_last_id, slots, hist>>

\* The batch is done: back to telegram_loop and its sleep (line 397).
TgLoopEnd ==
    /\ pc["cmd"] = "tg_loop"
    /\ updates = <<>>
    /\ Goto("cmd", "tg_sleep")
    /\ UNCHANGED <<startup, cookieFile, fd, status, KNOWN_SLOTS, pollLocals,
                   LAST_UPDATE_ID, tg_last_id, cmdLocals, hist>>

\* time.sleep(0.5) ends (lines 395-397).
TgSleep ==
    /\ pc["cmd"] = "tg_sleep"
    /\ Goto("cmd", "tg_poll")
    /\ UNCHANGED <<startup, cookieFile, fd, status, KNOWN_SLOTS, pollLocals,
                   LAST_UPDATE_ID, tg_last_id, cmdLocals, hist>>

\* ----------------------------------------------------------- specification
GetSession(t) == GsExists(t) \/ GsLoad(t) \/ GsExcept(t) \/ GsRemove(t)

UpdateCookies(t) == UcLoginFails(t) \/ UcOpen(t) \/ UcDumpFails(t) \/ UcDump(t)

Next ==
    \/ MainStart
    \/ Sleep
    \/ PollFetchFails
    \/ PollFetchStatus
    \/ PollFetchJsonError
    \/ PollFetchOk
    \/ PollFormat
    \/ PollSend
    \/ PollNoSend
    \/ CmdFetchFails
    \/ CmdFetchStatus
    \/ CmdApiError
    \/ CmdFetchOk
    \/ CheckSend
    \/ StartSend
    \/ UserSends
    \/ TgPollFails
    \/ TgPollOk
    \/ TgLoopNext
    \/ TgLoopEnd
    \/ TgSleep
    \/ \E t \in Threads : GetSession(t) \/ UpdateCookies(t)

\* format_message on its own: check_slots stands before line 298 with a list
\* of up to MaxItems new groups, all classified and known, and formats and
\* sends it.
Weeks == {"Mon", "Tue", "Wed"}
Sections == {"gym", "swim", "run"}

NewItems(n, week, section) ==
    [i \in 1..n |-> [id |-> ToString(i), week |-> week, time |-> "10:00",
                     teacherUid |-> "t1", section |-> section, vacancy |-> "1"]]

InitFormat ==
    /\ \E n \in 1..MaxItems, week \in Weeks, section \in Sections :
           new_slots_data = NewItems(n, week, section)
    /\ KNOWN_SLOTS = { generate_slot_id(new_slots_data[i]) : i \in DOMAIN new_slots_data }
    /\ current_slots_map =
           [f \in KNOWN_SLOTS |->
               new_slots_data[CHOOSE i \in DOMAIN new_slots_data :
                                  generate_slot_id(new_slots_data[i]) = f]]
    /\ pc = [t \in Threads |-> IF t = "main" THEN "send" ELSE "tg_poll"]
    /\ startup = FALSE
    /\ cookieFile = "valid"
    /\ fd = [t \in Threads |-> FALSE]
    /\ status = [t \in Threads |-> IF t = "main" THEN 200 ELSE NoStatus]
    /\ full_text = <<>>
    /\ LAST_UPDATE_ID = 0
    /\ tg_last_id = 0
    /\ updates = <<>>
    /\ update = NoUpdate
    /\ slots = <<>>
    /\ h_seen = [nodays |-> FALSE, full |-> KNOWN_SLOTS, avail |-> KNOWN_SLOTS]
    /\ h_before = {}
    /\ h_on = FALSE
    /\ h_prev_avail = {}
    /\ h_gone = {}
    /\ h_cmd_avail = {}
    /\ h_stored = [t \in Threads |-> None]
    /\ items = <<>>
    /\ slot_ids = <<>>

NextFormat == PollFormat \/ PollSend

SpecFormat == InitFormat /\ [][NextFormat]_vars

\* generate_slot_id on its own: two items of the API, with or without an id,
\* and the fingerprint of each.
Items ==
    { [id |-> id, week |-> week, time |-> "10:00", teacherUid |-> uid,
       section |-> section, place |-> place, vacancy |-> v] :
        id \in {"A", "B", "", None}, week \in {"Mon", "Tue"}, uid \in {"t1", "t2"},
        section \in {"gym", "swim"}, place \in {"hall", "pool"}, v \in Vacancies }

SlotIdCall ==
    /\ items = <<>>
    /\ \E a \in Items, b \in Items : items' = <<a, b>>
    /\ UNCHANGED <<pc, startup, cookieFile, fd, status, KNOWN_SLOTS, pollLocals,
                   LAST_UPDATE_ID, tg_last_id, cmdLocals, histPoll, h_stored, slot_ids>>

SlotIdReturn ==
    /\ items # <<>>
    /\ slot_ids = <<>>
    /\ slot_ids' = [i \in DOMAIN items |-> generate_slot_id(items[i])]
    /\ UNCHANGED <<pc, startup, cookieFile, fd, status, KNOWN_SLOTS, pollLocals,
                   LAST_UPDATE_ID, tg_last_id, cmdLocals, histPoll, h_stored, items>>

NextSlotId == SlotIdCall \/ SlotIdReturn

SpecSlotId == Init /\ [][NextSlotId]_vars

Spec == Init /\ [][Next]_vars

SpecHist == InitHist /\ [][Next]_vars

\* =============================================================== properties
\* The fingerprints of a list of groups.
FpsOf(groups) == { generate_slot_id(groups[i]) : i \in DOMAIN groups }

\* A step of check_slots that parsed the payload of a 200 response (its
\* contents are h_seen'), as opposed to one whose response.json() raised.
ParsedStep ==
    /\ pc["main"] = "fetch"
    /\ status'["main"] = 200
    /\ ~(pc'["main"] = "except" /\ h_seen'.nodays)

\* The poll thread is in a cycle whose fetch ended Unauthorized (the
\* re-login), ServerError, or NetworkFailure (session.get raised).
InFailedCycle ==
    /\ ~startup
    /\ \/ pc["main"] \in {"uc_login", "uc_dump", "api_error"}
       \/ pc["main"] = "except" /\ status["main"] = NoStatus

ReauthPcs == {"uc_login", "uc_dump"}

\* The command thread is inside handle_start_command or handle_check_command.
HandlerPcs ==
    {"start_send", "gs_exists", "gs_load", "gs_except", "gs_remove", "fetch",
     "api_error", "uc_login", "uc_dump", "check_send"}

\* A step of the command thread.
CmdStep == pc'["cmd"] # pc["cmd"] /\ pc'["cmd"] # "killed"

\* C1 -- No duplicate notification. Over the parsed poll cycles (cycles whose
\* fetch fails change neither KNOWN_SLOTS nor the history): a fingerprint
\* available in this cycle's payload that was not known and not available in
\* the cycle before is put in new_slots_data (the first cycle of its run),
\* and one that was available in the cycle before is not (the later cycles).
\* The code breaks the first half: a null vacancy earlier in the payload
\* ends the loop before the record is reached.
C1_NoDuplicateNotification ==
    [][ParsedStep =>
          \A f \in h_seen'.avail :
              /\ (f \notin KNOWN_SLOTS /\ f \notin h_prev_avail)
                     => f \in FpsOf(new_slots_data')
              /\ f \in h_prev_avail => f \notin FpsOf(new_slots_data')]_vars

\* C2 -- Re-notification after disappearance. A fingerprint that was known
\* when a fetched payload lacked it, and has not been available since, is
\* put in new_slots_data and a message is sent in the cycle where it is
\* available again. The code keeps it known when the payload that lacked it
\* was the empty list (or one whose parsing raised).
C2_RenotifyAfterDisappearance ==
    [][ParsedStep =>
          \A f \in h_gone \cap h_seen'.avail :
              f \in FpsOf(new_slots_data') /\ pc'["main"] = "send"]_vars

C5_OneReauthInFlight ==
    ~(~startup /\ pc["main"] \in ReauthPcs /\ pc["cmd"] \in ReauthPcs)

\* C6 -- Sender filter: a command handler runs only for an update whose
\* sender is CHAT_ID.
C6_SenderFilter ==
    pc["cmd"] \in HandlerPcs => update.from = CHAT_ID

\* C7 -- The poll loop never ends: no exception leaves check_slots and the
\* while loop of main.
C7_PollLoopNeverEnds ==
    pc["main"] # "crashed"

\* C8 -- Re-login exactly on 401 and 403. In check_slots and in
\* get_all_available_slots, a response with a status other than 200 leads to
\* update_cookies_via_selenium if and only if the status is 401 or 403, and
\* the two functions call it from nowhere else.
C8_ReauthOn401Or403 ==
    [][\A t \in Threads :
          /\ (pc[t] = "fetch" /\ status'[t] \notin {NoStatus, 200}) =>
                 (pc'[t] = "uc_login" <=> status'[t] \in {401, 403})
          /\ (pc'[t] = "uc_login" /\ pc[t] # "uc_login" /\ pc[t] # "main_start") =>
                 (pc[t] = "fetch" /\ status'[t] \in {401, 403})]_vars

\* C8 witness: a thread is in the re-login after a 403.
C8_Witness ==
    \E t \in Threads : pc[t] = "uc_login" /\ status[t] = 403

\* C9 -- A failed poll cycle. While the poll cycle is one whose fetch ended
\* Unauthorized, ServerError or NetworkFailure, KNOWN_SLOTS does not change,
\* and the cycle only moves from the re-login's start to its file write and
\* from anywhere to its end: no send_telegram, no second re-login, no second
\* fetch.
C9_FailedCycle ==
    [][/\ (InFailedCycle \/ InFailedCycle') => KNOWN_SLOTS' = KNOWN_SLOTS
       /\ (InFailedCycle /\ pc'["main"] # pc["main"]) =>
              \/ pc'["main"] = "done"
              \/ pc["main"] = "uc_login" /\ pc'["main"] = "uc_dump"]_vars

\* C9 witness: the cycle is in a re-login with something known.
C9_Witness ==
    /\ InFailedCycle
    /\ pc["main"] = "uc_dump"
    /\ KNOWN_SLOTS # {}

\* C10 -- The command thread leaves KNOWN_SLOTS alone, and what /check is
\* about to send lists every group of its payload that has a vacancy above
\* zero. The code breaks the second half: a null vacancy ends the loop of
\* get_all_available_slots and the groups after it are left out.
C10_CommandFrame ==
    [][/\ CmdStep => KNOWN_SLOTS' = KNOWN_SLOTS
       /\ pc'["cmd"] = "check_send" => h_cmd_avail' \subseteq FpsOf(slots')]_vars

\* C11 -- The Command Offset never decreases: no step of the program, a failed
\* getUpdates, an empty batch and a handler that raises included, leaves
\* LAST_UPDATE_ID below its value before the step (getUpdates answering with
\* the updates from the requested offset on, in order).
C11_OffsetNeverDecreases ==
    [][LAST_UPDATE_ID' >= LAST_UPDATE_ID]_vars

\* C11 witness: the offset has advanced over two updates and the call has
\* returned to the sleep of telegram_loop.
C11_Witness ==
    /\ LAST_UPDATE_ID >= 2
    /\ pc["cmd"] = "tg_sleep"

\* The cards of a message, and the marker that would stand for the records
\* left out of it.
CardsIn(msg) == Cardinality({ i \in DOMAIN msg : msg[i][1] = "card" })

HasMoreMarker(msg, k) == \E i \in DOMAIN msg : msg[i][1] = "more" /\ msg[i][2] = k

Min(a, b) == IF a < b THEN a ELSE b

\* C12 -- Truncation. The one message check_slots hands to send_telegram for
\* n new records holds min(n, 10) cards, and for n > 10 a marker with the
\* count n - 10. The code renders a card for every record and no marker.
C12_Truncation ==
    pc["main"] = "sending" =>
        LET n == Len(new_slots_data)
        IN  /\ CardsIn(full_text) = Min(n, 10)
            /\ n > 10 => HasMoreMarker(full_text, n - 10)

\* C13 -- Capacity coercion. A null vacancy counts as 0: in a poll cycle that
\* parsed a non-empty payload, every fingerprint of the payload is a key of
\* current_slots_map, exactly the unknown fingerprints with a vacancy above
\* zero are put in new_slots_data and added to KNOWN_SLOTS, the fingerprints
\* the payload lacks are evicted, and the cycle does not end in the except.
\* The code raises on int(None) and leaves the loops there.
C13_CapacityCoercion ==
    [][(ParsedStep /\ ~h_seen'.nodays) =>
          /\ pc'["main"] # "except"
          /\ DOMAIN current_slots_map' = h_seen'.full
          /\ FpsOf(new_slots_data') = h_seen'.avail \ KNOWN_SLOTS
          /\ KNOWN_SLOTS' = (KNOWN_SLOTS \cup h_seen'.avail) \cap h_seen'.full]_vars

\* C14 -- A failed re-login keeps the stale credentials: when a call of
\* update_cookies_via_selenium that found a loadable COOKIE_FILE ends in its
\* except, the file is still loadable. The code opens the file for writing,
\* which truncates it, before driver.get_cookies() and pickle.dump can fail.
C14_FailedReauthKeepsBundle ==
    [][\A t \in Threads :
          ((UcLoginFails(t) \/ UcDumpFails(t)) /\ h_stored[t] = "valid") =>
              cookieFile' = "valid"]_vars

\* C15 -- The command channel stays responsive. Every update at the endpoint
\* is polled by a later check_telegram_commands, so the command thread never
\* ends with an update it has not polled. The code lets the main thread die
\* in get_session, and the daemon command thread dies with it.
C15_CommandsHandled ==
    pc["cmd"] = "killed" => LAST_UPDATE_ID = tg_last_id

\* Two items that agree on every field but the vacancy, and two that agree
\* on the fields the hash is taken over.
SameButVacancy(a, b) == [a EXCEPT !.vacancy = b.vacancy] = b

SameHashedFields(a, b) ==
    /\ a.week = b.week
    /\ a.time = b.time
    /\ a.teacherUid = b.teacherUid
    /\ a.section = b.section

\* C16 -- Fingerprinting is independent of the vacancy (the fields the code
\* hashes are week, time, teacherUid and section): of two items
\* generate_slot_id was called with, two that differ only in vacancy got the
\* same fingerprint, one with a non-empty id got that id (as a string), and
\* two without an id that agree on week, time, teacherUid and section got
\* the same fingerprint, whatever their place and vacancy.
C16_SlotIdIgnoresVacancy ==
    slot_ids # <<>> =>
        \A i \in DOMAIN items, j \in DOMAIN items :
            /\ SameButVacancy(items[i], items[j]) => slot_ids[i] = slot_ids[j]
            /\ items[i].id \notin {"", None} => slot_ids[i] = <<items[i].id>>
            /\ (items[i].id \in {"", None} /\ items[j].id \in {"", None}
                    /\ SameHashedFields(items[i], items[j])) => slot_ids[i] = slot_ids[j]

\* C16 witness: two items without an id that differ in vacancy and place
\* only, fingerprinted.
C16_Witness ==
    /\ slot_ids # <<>>
    /\ items[1].id = ""
    /\ items[2].id = None
    /\ SameHashedFields(items[1], items[2])
    /\ items[1].vacancy # items[2].vacancy
    /\ items[1].place # items[2].place

\* C17 -- No fingerprint becomes known without a notification attempt. In a
\* poll cycle that parsed its payload, every fingerprint added to KNOWN_SLOTS
\* is the fingerprint of a group of new_slots_data and the cycle goes on to
\* send_telegram; a cycle whose loops raised leaves KNOWN_SLOTS as it was.
\* The code adds to KNOWN_SLOTS inside the loops, before a later group raises.
C17_KnownOnlyIfNotified ==
    [][ParsedStep =>
          /\ (KNOWN_SLOTS' \ KNOWN_SLOTS) \subseteq FpsOf(new_slots_data')
          /\ KNOWN_SLOTS' \ KNOWN_SLOTS # {} => pc'["main"] = "send"
          /\ pc'["main"] = "except" => KNOWN_SLOTS' = KNOWN_SLOTS]_vars

\* C18 -- Fetch, then classify, then dispatch. When check_slots formats and
\* sends, KNOWN_SLOTS already has its value for the cycle, the additions and
\* the eviction both applied; formatting and sending do not change it; the
\* message is sent only after a fetch of the same cycle was classified, and
\* the next cycle's get_session starts only from the sleep of main's loop
\* (or from main's start), never inside a cycle.
C18_ClassifyBeforeDispatch ==
    [][/\ pc'["main"] \in {"send", "sending"} =>
              KNOWN_SLOTS' = (h_before' \cup FpsOf(new_slots_data'))
                                 \cap DOMAIN current_slots_map'
       /\ pc["main"] \in {"send", "sending"} => KNOWN_SLOTS' = KNOWN_SLOTS
       /\ (pc'["main"] = "send" /\ pc["main"] # "send") => pc["main"] = "fetch"
       /\ (pc'["main"] = "sending" /\ pc["main"] # "sending") => pc["main"] = "send"
       /\ (pc'["main"] = "gs_exists" /\ pc["main"] # "gs_exists") =>
              (pc["main"] = "done" \/ startup)]_vars

\* C18 witness: a message is being sent in a cycle that both added a
\* fingerprint and evicted one.
C18_Witness ==
    /\ pc["main"] = "sending"
    /\ KNOWN_SLOTS \ h_before # {}
    /\ h_before \ KNOWN_SLOTS # {}

\* C19 -- Each update is handled at most once, in order. The offset only
\* moves to the next identifier, one update at a time; a handler starts only
\* for the update the offset has just moved to; and when a handler raises
\* (os.remove in get_session), the offset stays on that update and the rest
\* of the batch is dropped unhandled, to be asked for again from offset + 1.
C19_HandledOnceInOrder ==
    [][/\ LAST_UPDATE_ID' # LAST_UPDATE_ID => LAST_UPDATE_ID' = LAST_UPDATE_ID + 1
       /\ (update' # NoUpdate /\ update' # update) =>
              /\ update'.update_id = LAST_UPDATE_ID'
              /\ LAST_UPDATE_ID' = LAST_UPDATE_ID + 1
       /\ \A i \in DOMAIN updates' : updates'[i] = LAST_UPDATE_ID' + i
       /\ (pc["cmd"] = "gs_remove" /\ pc'["cmd"] = "tg_sleep") =>
              LAST_UPDATE_ID' = update.update_id /\ updates' = <<>>]_vars

\* C19 witness: the handler of update 1 runs, the offset is on it, and
\* update 2 of the same batch waits.
C19_Witness ==
    /\ pc["cmd"] \in HandlerPcs
    /\ update.update_id = 1
    /\ LAST_UPDATE_ID = 1
    /\ updates = <<2>>

\* C20 -- A successful re-login is not undone by the other thread. When
\* pickle.dump and the close succeed, COOKIE_FILE holds the bundle, and a
\* get_session of the other thread does not remove a file that holds one.
\* The code lets get_session remove the file it found truncated, while the
\* writer still has it open or after the writer has closed it.
C20_ReauthNotUndone ==
    [][\A t \in Threads :
          /\ UcDump(t) => cookieFile' = "valid"
          /\ (GsRemove(t) /\ cookieFile = "valid") => cookieFile' = "valid"]_vars

====
